---- MODULE Spec2Model ----
(***************************************************************************)
(* A model of InteractiveHtmlBom/ecad/kicad.py: PcbnewParser, the class    *)
(* that walks a pcbnew board and builds the pcbdata record.                *)
(*                                                                         *)
(* Each parser method is one action that runs the whole method on inputs   *)
(* held in the state (the board, the configuration), and leaves its return *)
(* value, the log and the strings given to the font parser in the state.   *)
(* The methods are operators that follow the code line by line. There is   *)
(* one specification per method; the variables a method does not touch     *)
(* keep the value None there.                                              *)
(*                                                                         *)
(* Abstractions:                                                           *)
(*  - a length in millimetres is the pair <<nm, Scale>>, the exact value   *)
(*    of nm * 1e-6 (floating point error is not modelled);                 *)
(*  - an angle of the board is an integer count of 1/100 decidegree, an    *)
(*    emitted angle an integer count of 1/100 degree, so that              *)
(*    round(x * 0.1, 2) really rounds;                                     *)
(*  - a designator is a string of the set Designators, ordered as Python   *)
(*    orders str values: by code point, character by character;            *)
(*  - of the records the code emits, the model keeps the keys the          *)
(*    properties below speak of.                                           *)
(***************************************************************************)
EXTENDS Integers, Sequences, FiniteSets, TLC

VARIABLES
    pc,               \* the method about to be called, "done" once it has returned
    self_footprints,  \* self.footprints: the footprints of the board, in board order
    footprints,       \* the list parse_footprints returns
    d,                \* the drawing given to parse_shape or parse_text
    tracks,           \* the tracks given to parse_tracks
    polygon_set,      \* the polygon set given to parse_poly_set
    board,            \* self.board: its drawings, as GetDrawings() lists them
    zones,            \* self.board.Zones(), where the host has it
    net_info,         \* self.board.GetNetInfo(), where the host has it
    config,           \* self.config
    netlist,          \* the file config.netlist_file names, as the parser finds it
    ret,              \* what the method returned or raised
    font_parser,      \* the strings given to font_parser.parse_font_for_string, in order
    logger            \* the entries written to self.logger, in order

fpVars == <<self_footprints, footprints>>

netVars == <<zones, net_info>>

vars == <<pc, fpVars, d, tracks, polygon_set, board, netVars, config, netlist, ret,
          font_parser, logger>>

\* Python's None.
None == [None |-> TRUE]

\* The board has no zones and no nets to speak of.
IdleNets == zones = None /\ net_info = None

\* normalize() multiplies by 1e-6: the nanometres of the board per millimetre.
Scale == 1000000

\* v * 1e-6: the length of v nanometres in millimetres, as an exact fraction.
Mm(v) == <<v, Scale>>

\* normalize(point), line 44.
normalize(point) == <<Mm(point[1]), Mm(point[2])>>

----------------------------------------------------------------------------
(* Python's order on str *)

\* The designators a pad of the model can carry.
Designators == {"1", "A1", "10", "2"}

\* The names a net of the model can carry; the net of unconnected pads has
\* the empty name.
NetNames == {"", "+5V", "A1", "GND", "GNDA"}

\* The code points of the characters that occur in Designators and NetNames.
Ord(ch) ==
    CASE ch = "0" -> 48
      [] ch = "1" -> 49
      [] ch = "2" -> 50
      [] ch = "A" -> 65
      [] ch = "+" -> 43
      [] ch = "5" -> 53
      [] ch = "D" -> 68
      [] ch = "G" -> 71
      [] ch = "N" -> 78
      [] ch = "V" -> 86

\* A designator or net name as its sequence of characters.
Chars(name) ==
    CASE name = "1"  -> <<"1">>
      [] name = "A1" -> <<"A", "1">>
      [] name = "10" -> <<"1", "0">>
      [] name = "2"  -> <<"2">>
      [] name = ""   -> <<>>
      [] name = "+5V" -> <<"+", "5", "V">>
      [] name = "GND" -> <<"G", "N", "D">>
      [] name = "GNDA" -> <<"G", "N", "D", "A">>

RECURSIVE SeqLess(_, _)
\* s < t for two sequences of characters, as str.__lt__ decides it.
SeqLess(s, t) ==
    IF t = <<>> THEN FALSE
    ELSE IF s = <<>> THEN TRUE
    ELSE IF Ord(Head(s)) # Ord(Head(t)) THEN Ord(Head(s)) < Ord(Head(t))
    ELSE SeqLess(Tail(s), Tail(t))

StrLess(a, b) == SeqLess(Chars(a), Chars(b))

StrLeq(a, b) == a = b \/ StrLess(a, b)

----------------------------------------------------------------------------
(* parse_footprints *)

\* The names the code takes for a first pin.
Pin1Names == {"1", "A", "A1", "P1", "PAD1"}

\* Most pads of the whole board, and most footprints of the board.
MaxPads == 3
MaxFootprints == 2

\* A pad of the board: its name and whether parse_pad knows its shape.
PadInputs == [name : Designators, ok : BOOLEAN]

PadSeqs == UNION {[1..n -> PadInputs] : n \in 0..MaxPads}

\* parse_pad(p) is None for a pad whose shape is not in shape_lookup.
\* The dict it returns otherwise is identified by the pad's place in f.Pads().
ParsePadIsNone(p) == ~p.ok

RECURSIVE CollectPads(_, _)
\* The loop of lines 359-363 over the first n pads: the list of
\* (p.GetPadName(), pad_dict) pairs of the pads parse_pad accepted.
CollectPads(fpads, n) ==
    IF n = 0 THEN <<>>
    ELSE IF ParsePadIsNone(fpads[n]) THEN CollectPads(fpads, n - 1)
    ELSE Append(CollectPads(fpads, n - 1), [name |-> fpads[n].name, pad |-> n])

\* A sort that is not stable: el goes before the elements of equal key.
InsertByName_BeforeEqual(s, el) ==
    LET later == {i \in 1..Len(s) : StrLeq(el.name, s[i].name)}
        at == IF later = {} THEN Len(s) + 1
              ELSE CHOOSE i \in later : \A j \in later : i <= j
    IN  SubSeq(s, 1, at - 1) \o <<el>> \o SubSeq(s, at, Len(s))

\* el put into the sorted list s after every element whose key is <= its key.
InsertByName(s, el) ==
    LET later == {i \in 1..Len(s) : StrLess(el.name, s[i].name)}
        at == IF later = {} THEN Len(s) + 1
              ELSE CHOOSE i \in later : \A j \in later : i <= j
    IN  SubSeq(s, 1, at - 1) \o <<el>> \o SubSeq(s, at, Len(s))

RECURSIVE Sorted(_)
\* sorted(pads, key=lambda el: el[0]): a stable sort by name.
Sorted(s) ==
    IF s = <<>> THEN <<>>
    ELSE InsertByName(Sorted(SubSeq(s, 1, Len(s) - 1)), s[Len(s)])

\* The choice without the list of first-pin names: the smallest name.
Pin1PadName_Smallest(pads) == pads[1].name

\* The name lines 368-375 choose from the sorted, non-empty list of pads.
Pin1PadName(pads) ==
    LET pin1_pads == SelectSeq(pads, LAMBDA p : p.name \in Pin1Names)
    IN  IF pin1_pads # <<>> THEN pin1_pads[1].name ELSE pads[1].name

\* The flag set on the first pad of that name only.
MarkPin1_FirstOnly(pads, pin1_pad_name) ==
    [i \in 1..Len(pads) |->
        [pad |-> pads[i].pad,
         pin1 |-> /\ pads[i].name = pin1_pad_name
                  /\ \A j \in 1..(i - 1) : pads[j].name # pin1_pad_name]]

\* Lines 376-378: the pad dicts with the flag set on every pad of that name.
MarkPin1(pads, pin1_pad_name) ==
    [i \in 1..Len(pads) |->
        [pad |-> pads[i].pad, pin1 |-> (pads[i].name = pin1_pad_name)]]

\* Lines 358-380 for one footprint: the pads of the emitted footprint. Each
\* is the dict of pad number `pad` of f.Pads(), with or without 'pin1'.
FootprintPads(fpads) ==
    LET pads == CollectPads(fpads, Len(fpads))
    IN  IF pads # <<>>
        THEN LET sorted == Sorted(pads)
             IN  MarkPin1(sorted, Pin1PadName(sorted))
        ELSE <<>>

\* parse_footprints: one record per footprint, in the order of self.footprints.
ParseFootprintsOp(fps) ==
    [i \in 1..Len(fps) |-> [ref |-> fps[i].ref, pads |-> FootprintPads(fps[i].pads)]]

----------------------------------------------------------------------------
(* parse_poly_set *)

\* The loop with `continue` in the place of `return result`.
RECURSIVE PolySetLoop_Continue(_, _)
PolySetLoop_Continue(pset, n) ==
    IF n = 0 THEN [result |-> <<>>, returned |-> FALSE, log |-> <<>>]
    ELSE LET before == PolySetLoop_Continue(pset, n - 1)
             outline == pset[n]
         IN  IF ~outline.has_PointCount
             THEN [before EXCEPT !.log =
                      Append(@, [level |-> "warn", msg |-> "No PointCount method"])]
             ELSE [before EXCEPT !.result =
                      Append(@, [j \in 1..Len(outline.points) |->
                                    normalize(<<outline.points[j].x,
                                                outline.points[j].y>>)])]

\* parse_poly_set, lines 118-132, after the first n outlines: the result so
\* far, whether the method has returned, and the warnings it logged.
RECURSIVE PolySetLoop(_, _)
PolySetLoop(pset, n) ==
    IF n = 0 THEN [result |-> <<>>, returned |-> FALSE, log |-> <<>>]
    ELSE LET before == PolySetLoop(pset, n - 1)
             outline == pset[n]
         IN  IF before.returned THEN before
             ELSE IF ~outline.has_PointCount
             THEN [result |-> before.result, returned |-> TRUE,
                   log |-> Append(before.log,
                                  [level |-> "warn", msg |-> "No PointCount method"])]
             ELSE [result |-> Append(before.result,
                                [j \in 1..Len(outline.points) |->
                                    normalize(<<outline.points[j].x,
                                                outline.points[j].y>>)]),
                   returned |-> FALSE,
                   log |-> before.log]

parse_poly_set(pset) ==
    LET run == PolySetLoop(pset, Len(pset))
    IN  [ret |-> run.result, log |-> run.log]

----------------------------------------------------------------------------
(* round, and the arcs of parse_shape and parse_tracks *)

\* x / m rounded to the nearest integer, halves to the even one, as Python 3
\* rounds (m > 0).
RoundHalfEven(x, m) ==
    LET q == x \div m
        r == x % m
    IN  IF 2 * r < m THEN q
        ELSE IF 2 * r > m THEN q + 1
        ELSE IF q % 2 = 0 THEN q ELSE q + 1

\* round(a * 0.1, 2) for an angle a in 1/100 decidegree: hundredths of a degree.
Round2(a) == RoundHalfEven(a, 10)

\* The angles without the exchange for a negative sweep.
ArcAngles_NoSwap(astart, angle) == <<Round2(astart), Round2(astart + angle)>>

\* Lines 76-79 and 412-416: start and end angle of an arc.
ArcAngles(astart, angle) ==
    LET a1 == Round2(astart)
        a2 == Round2(astart + angle)
    IN  IF angle < 0 THEN <<a2, a1>> ELSE <<a1, a2>>

\* The names parse_shape has for the values of GetShape().
ShapeNames == {"segment", "circle", "arc", "polygon", "curve", "rect"}

\* parse_shape, lines 46-116. dd.shape is the entry of the lookup table for
\* dd.GetShape(), "" when it has none. Points, radius and width are not kept.
parse_shape(dd) ==
    IF dd.shape \notin ShapeNames
    THEN [ret |-> None, fonts |-> <<>>,
          log |-> <<[level |-> "info", msg |-> "Unsupported shape"]>>]
    ELSE IF dd.shape = "arc"
    THEN [ret |-> [type |-> "arc",
                   startangle |-> ArcAngles(dd.astart, dd.angle)[1],
                   endangle |-> ArcAngles(dd.astart, dd.angle)[2]],
          fonts |-> <<>>, log |-> <<>>]
    ELSE IF dd.shape = "polygon"
    THEN IF ~dd.has_GetPolyShape
         THEN [ret |-> None, fonts |-> <<>>,
               log |-> <<[level |-> "info", msg |-> "Polygons not supported"]>>]
         ELSE [ret |-> [type |-> "polygon", polygons |-> parse_poly_set(dd.poly).ret],
               fonts |-> <<>>, log |-> parse_poly_set(dd.poly).log]
    ELSE [ret |-> [type |-> dd.shape], fonts |-> <<>>, log |-> <<>>]

----------------------------------------------------------------------------
(* parse_text *)

RECURSIVE TextLines_PreviousStart(_, _)
\* The loop comparing a segment's start with the start of the segment
\* before it, segments[i-2], not with its end.
TextLines_PreviousStart(segments, n) ==
    IF n = 0 THEN <<>>
    ELSE LET lines == TextLines_PreviousStart(segments, n - 1)
             i == 2 * (n - 1) + 1
             opened == IF n = 1 \/ segments[i - 2] # segments[i]
                       THEN Append(lines, <<segments[i]>>)
                       ELSE lines
         IN  [opened EXCEPT ![Len(opened)] = Append(@, segments[i + 1])]

RECURSIVE TextLines(_, _)
\* The loop of lines 144-148 over the first n segments of the flat list of
\* end points: the polylines built so far.
TextLines(segments, n) ==
    IF n = 0 THEN <<>>
    ELSE LET lines == TextLines(segments, n - 1)
             i == 2 * (n - 1) + 1
             opened == IF n = 1 \/ segments[i - 1] # segments[i]
                       THEN Append(lines, <<segments[i]>>)
                       ELSE lines
         IN  [opened EXCEPT ![Len(opened)] = Append(@, segments[i + 1])]

\* Lines 171-177: the attributes of a text, in the order the code tests them.
Attributes(dd) ==
    (IF dd.mirrored THEN <<"mirrored">> ELSE <<>>)
        \o (IF dd.italic THEN <<"italic">> ELSE <<>>)
        \o (IF dd.bold THEN <<"bold">> ELSE <<>>)

\* parse_text with the string given to the font parser before anything else.
parse_text_ForwardFirst(dd) ==
    IF ~dd.visible THEN [ret |-> None, fonts |-> <<dd.text>>, log |-> <<>>]
    ELSE IF dd.stroke
    THEN [ret |-> [svgpath |->
                      TextLines([j \in 1..Len(dd.segments) |-> normalize(dd.segments[j])],
                                Len(dd.segments) \div 2)],
          fonts |-> <<dd.text>>, log |-> <<>>]
    ELSE [ret |-> [text |-> dd.text, attr |-> Attributes(dd)],
          fonts |-> <<dd.text>>, log |-> <<>>]

\* parse_text, lines 134-188: the return value and the strings it gave to
\* the font parser. dd.stroke says whether the host has
\* TransformToSegmentList. 'svgpath' holds the argument of create_path.
parse_text(dd) ==
    IF ~dd.visible THEN [ret |-> None, fonts |-> <<>>, log |-> <<>>]
    ELSE IF dd.stroke
    THEN [ret |-> [svgpath |->
                      TextLines([j \in 1..Len(dd.segments) |-> normalize(dd.segments[j])],
                                Len(dd.segments) \div 2)],
          fonts |-> <<>>, log |-> <<>>]
    ELSE [ret |-> [text |-> dd.text, attr |-> Attributes(dd)],
          fonts |-> <<dd.text>>, log |-> <<>>]

\* parse_drawing, lines 190-198.
parse_drawing(dd) ==
    IF dd.cls \in {"DRAWSEGMENT", "MGRAPHIC", "PCB_SHAPE"} THEN parse_shape(dd)
    ELSE IF dd.cls \in {"PTEXT", "MTEXT"} THEN parse_text(dd)
    ELSE [ret |-> None, fonts |-> <<>>,
          log |-> <<[level |-> "info", msg |-> "Unsupported drawing class"]>>]

----------------------------------------------------------------------------
(* parse_tracks *)

\* Lines 399-432 for one track: the dict of track number n, or None for a
\* track that is no via and lies on neither F_Cu nor B_Cu.
TrackDict(track, n, include_nets) ==
    IF track.cls = "VIA"
    THEN [track |-> n, net |-> track.net]
    ELSE IF track.layer \notin {"F_Cu", "B_Cu"} THEN None
    ELSE LET track_dict ==
                 IF track.cls = "ARC"
                 THEN [track |-> n,
                       startangle |-> ArcAngles(track.astart, track.angle)[1],
                       endangle |-> ArcAngles(track.astart, track.angle)[2]]
                 ELSE [track |-> n]
         IN  IF include_nets THEN track_dict @@ [net |-> track.net] ELSE track_dict

\* Whether the dict of a track goes to result[layer].
TrackOnLayer(track, layer) ==
    IF track.cls = "VIA" THEN layer \in track.on_layers
    ELSE track.layer = layer

RECURSIVE TracksOfLayer(_, _, _, _)
\* result[layer] after the first n tracks of the loop of lines 398-432.
TracksOfLayer(trks, n, layer, include_nets) ==
    IF n = 0 THEN <<>>
    ELSE LET before == TracksOfLayer(trks, n - 1, layer, include_nets)
         IN  IF TrackOnLayer(trks[n], layer)
             THEN Append(before, TrackDict(trks[n], n, include_nets))
             ELSE before

\* parse_tracks, lines 396-437.
parse_tracks(trks, include_nets) ==
    [F |-> TracksOfLayer(trks, Len(trks), "F_Cu", include_nets),
     B |-> TracksOfLayer(trks, Len(trks), "B_Cu", include_nets)]

----------------------------------------------------------------------------
(* parse_netlist *)

\* str(s) of a key of NetsByName(): the name the key holds.
Str(key) == key.utf8

\* name put into the sorted list s after every element that is <= it.
InsertName(s, name) ==
    LET later == {i \in 1..Len(s) : StrLess(name, s[i])}
        at == IF later = {} THEN Len(s) + 1
              ELSE CHOOSE i \in later : \A j \in later : i <= j
    IN  SubSeq(s, 1, at - 1) \o <<name>> \o SubSeq(s, at, Len(s))

RECURSIVE SortedNames(_)
\* nets.sort(), line 476.
SortedNames(s) ==
    IF s = <<>> THEN <<>>
    ELSE InsertName(SortedNames(SubSeq(s, 1, Len(s) - 1)), s[Len(s)])

\* parse_netlist without line 476.
parse_netlist_Unsorted(info) ==
    [i \in 1..Len(info.NetsByName) |-> Str(info.NetsByName[i])]

\* parse_netlist, lines 471-477. info.NetsByName is the list of the keys of
\* net_info.NetsByName().asdict(), in the order the dict gives them.
parse_netlist(info) ==
    SortedNames([i \in 1..Len(info.NetsByName) |-> Str(info.NetsByName[i])])

----------------------------------------------------------------------------
(* parse_edges *)

\* The rectangle pcbnew returns from GetBoundingBox(): position and size, a
\* size that may be negative until the rectangle is normalized.
RectNormalize(r) ==
    [x |-> IF r.w < 0 THEN r.x + r.w ELSE r.x,
     y |-> IF r.h < 0 THEN r.y + r.h ELSE r.y,
     w |-> IF r.w < 0 THEN -r.w ELSE r.w,
     h |-> IF r.h < 0 THEN -r.h ELSE r.h]

Min(a, b) == IF a <= b THEN a ELSE b

Max(a, b) == IF a >= b THEN a ELSE b

\* A merge that takes the other rectangle as it comes.
RectMerge_Raw(bbox, other) ==
    LET a == RectNormalize(bbox)
        x == Min(a.x, other.x)
        y == Min(a.y, other.y)
    IN  [x |-> x, y |-> y,
         w |-> Max(a.x + a.w, other.x + other.w) - x,
         h |-> Max(a.y + a.h, other.y + other.h) - y]

\* bbox.Merge(other) of pcbnew: both normalized, then the rectangle that
\* contains both.
RectMerge(bbox, other) ==
    LET a == RectNormalize(bbox)
        b == RectNormalize(other)
        x == Min(a.x, b.x)
        y == Min(a.y, b.y)
    IN  [x |-> x, y |-> y,
         w |-> Max(a.x + a.w, b.x + b.w) - x,
         h |-> Max(a.y + a.h, b.y + b.h) - y]

RECURSIVE GraphicalItems(_, _)
\* Lines 204-206: the graphical items of the first n footprints, in order.
GraphicalItems(fps, n) ==
    IF n = 0 THEN <<>> ELSE GraphicalItems(fps, n - 1) \o fps[n].graphics

\* An empty rectangle in the place of None.
EdgesInitialBBox_Empty == [x |-> 0, y |-> 0, w |-> 0, h |-> 0]

\* The value of bbox before the loop of parse_edges, line 203.
EdgesInitialBBox == None

RECURSIVE EdgesLoop(_, _)
\* The loop of lines 207-215 over the first n drawings.
EdgesLoop(drawings, n) ==
    IF n = 0
    THEN [edges |-> <<>>, bbox |-> EdgesInitialBBox, fonts |-> <<>>, log |-> <<>>]
    ELSE LET before == EdgesLoop(drawings, n - 1)
             dd == drawings[n]
         IN  IF dd.layer # "Edge_Cuts" THEN before
             ELSE LET parsed == parse_drawing(dd)
                  IN  IF parsed.ret = None
                      THEN [before EXCEPT !.fonts = @ \o parsed.fonts,
                                          !.log = @ \o parsed.log]
                      ELSE [edges |-> Append(before.edges, parsed.ret),
                            bbox |-> IF before.bbox = None THEN dd.bbox
                                     ELSE RectMerge(before.bbox, dd.bbox),
                            fonts |-> before.fonts \o parsed.fonts,
                            log |-> before.log \o parsed.log]

\* Lines 216-217.
EdgesFinalBBox(bbox) == IF bbox # None THEN RectNormalize(bbox) ELSE bbox

\* parse_edges, lines 200-218.
parse_edges(pcb, fps) ==
    LET drawings == pcb \o GraphicalItems(fps, Len(fps))
        run == EdgesLoop(drawings, Len(drawings))
    IN  [run EXCEPT !.bbox = EdgesFinalBBox(run.bbox)]

----------------------------------------------------------------------------
(* parse *)

\* Lines 509-512: whether the configuration asks for extra fields.
ConfigNeedsExtraFields(cfg) ==
    \/ cfg.extra_fields
    \/ cfg.board_variant_whitelist
    \/ cfg.board_variant_blacklist
    \/ cfg.dnp_field

\* Line 514: the request is dropped, with a warning, when no file is named.
IgnoresExtraFields(cfg) == cfg.netlist_file = "" /\ ConfigNeedsExtraFields(cfg)

\* The request kept when no file is named.
need_extra_fields_Kept(cfg) == ConfigNeedsExtraFields(cfg)

\* need_extra_fields after line 517.
need_extra_fields(cfg) == ConfigNeedsExtraFields(cfg) /\ ~IgnoresExtraFields(cfg)

\* Lines 519-523: what extra_data_func returned, None when it was not called.
\* The pair it returns is the record of its field names and its map.
ExtraFieldData(cfg, nl) ==
    IF cfg.netlist_file # "" /\ nl.isfile THEN nl.data ELSE None

\* Line 525: whether parse raises ParsingException.
FailedParsing(cfg, nl) == ExtraFieldData(cfg, nl) = None /\ need_extra_fields(cfg)

\* Line 529: the field map, or None.
FieldMap(cfg, nl) ==
    IF ExtraFieldData(cfg, nl) # None THEN ExtraFieldData(cfg, nl).map ELSE None

\* An empty dict.
EmptyDict == << >>

\* Lines 595-611: the extra fields of every footprint and the warnings.
RECURSIVE ExtraFieldsLoop(_, _, _)
ExtraFieldsLoop(fps, map, n) ==
    IF n = 0 THEN [e |-> <<>>, log |-> <<>>]
    ELSE LET before == ExtraFieldsLoop(fps, map, n - 1)
             ref == fps[n].ref
         IN  IF ref \in DOMAIN map
             THEN [before EXCEPT !.e = Append(@, map[ref])]
             ELSE [e |-> Append(before.e, EmptyDict),
                   log |-> Append(before.log,
                                  [level |-> "warn", msg |-> "Component is missing",
                                   ref |-> ref])]

ExtraFields(fps, cfg, nl) ==
    LET map == FieldMap(cfg, nl)
    IN  IF map # None /\ map # EmptyDict /\ need_extra_fields(cfg)
        THEN LET run == ExtraFieldsLoop(fps, map, Len(fps))
             IN  [e |-> run.e,
                  log |-> IF run.log # <<>>
                          THEN Append(run.log,
                                      [level |-> "warn",
                                       msg |-> "Netlist/xml file is likely out of date."])
                          ELSE run.log]
        ELSE [e |-> [i \in 1..Len(fps) |-> EmptyDict], log |-> <<>>]

\* Line 552: whether parse gives up for want of an outline.
NoOutline(bbox) == bbox = None

\* An empty list of components in the place of the second None.
NoOutlineResult_NoComponents == [kind |-> "return", pcbdata |-> None, components |-> <<>>]

\* What parse returns when there is no outline, line 556.
NoOutlineResult == [kind |-> "return", pcbdata |-> None, components |-> None]

\* Lines 557-562.
EdgesBBox(bbox) ==
    [minx |-> Mm(bbox.x), miny |-> Mm(bbox.y),
     maxx |-> Mm(bbox.x + bbox.w), maxy |-> Mm(bbox.y + bbox.h)]

\* parse, lines 505-616: what it returned or raised, what it logged and what
\* it gave to the font parser. Of pcbdata the outline, its box and the
\* footprints are kept; of a component its reference and extra fields.
parse(cfg, nl, pcb, fps) ==
    LET warned == IF IgnoresExtraFields(cfg)
                  THEN <<[level |-> "warn", msg |-> "Ignoring extra fields"]>>
                  ELSE <<>>
    IN  IF FailedParsing(cfg, nl)
        THEN [ret |-> [kind |-> "raise", exc |-> "ParsingException"],
              fonts |-> <<>>, log |-> warned]
        ELSE LET edges == parse_edges(pcb, fps)
             IN  IF NoOutline(edges.bbox)
                 THEN [ret |-> NoOutlineResult,
                       fonts |-> edges.fonts,
                       log |-> warned \o edges.log
                                 \o <<[level |-> "error",
                                       msg |-> "Please draw pcb outline"]>>]
                 ELSE LET extra == ExtraFields(fps, cfg, nl)
                      IN  [ret |->
                              [kind |-> "return",
                               pcbdata |->
                                  [edges_bbox |-> EdgesBBox(edges.bbox),
                                   edges |-> edges.edges,
                                   footprints |-> ParseFootprintsOp(fps)],
                               components |->
                                  [i \in 1..Len(fps) |->
                                      [ref |-> fps[i].ref,
                                       extra_fields |-> extra.e[i]]]],
                           fonts |-> edges.fonts,
                           log |-> warned \o edges.log \o extra.log]


----------------------------------------------------------------------------
(* parse with the tracks, zones and nets of the board *)

\* Lines 315-316: the dict parse_pad returns for pad p, with the pad's net
\* name when nets are included. pad_dict is the dict without it.
PadDict(pad_dict, p, include_nets) ==
    IF include_nets THEN pad_dict @@ [net |-> p.net] ELSE pad_dict

\* Lines 358-380 for one footprint: the emitted pad dicts, each with the
\* keys parse_pad and the first-pin loop gave it.
FootprintPadDicts(fpads, include_nets) ==
    LET pads == FootprintPads(fpads)
    IN  [i \in 1..Len(pads) |-> PadDict(pads[i], fpads[pads[i].pad], include_nets)]

\* parse_footprints, lines 320-394, with the net of every pad dict.
parse_footprints(fps, include_nets) ==
    [i \in 1..Len(fps) |->
        [ref |-> fps[i].ref, pads |-> FootprintPadDicts(fps[i].pads, include_nets)]]

\* Lines 442-445: the zones the loop of parse_zones passes over.
ZoneSkipped(zone) == ~zone.filled \/ zone.keepout \/ zone.rule_area

\* Lines 446-447: the copper layers of a zone, in the order of its layer set.
ZoneLayers(zone) == SelectSeq(zone.layers, LAMBDA layer : layer \in {"F_Cu", "B_Cu"})

\* Lines 458-463: the dict of zone number n, of which the polygons and the
\* net name are kept.
ZoneDict(zone, n, include_nets) ==
    LET zone_dict == [zone |-> n, polygons |-> parse_poly_set(zone.polys).ret]
    IN  IF include_nets THEN zone_dict @@ [net |-> zone.net] ELSE zone_dict

RECURSIVE ZonesOfLayer(_, _, _, _)
\* result[layer] after the first n zones of the loop of lines 441-464.
ZonesOfLayer(zns, n, layer, include_nets) ==
    IF n = 0 THEN <<>>
    ELSE LET before == ZonesOfLayer(zns, n - 1, layer, include_nets)
         IN  IF ~ZoneSkipped(zns[n]) /\ \E i \in 1..Len(zns[n].layers) : zns[n].layers[i] = layer
             THEN Append(before, ZoneDict(zns[n], n, include_nets))
             ELSE before

RECURSIVE ZonesLog(_, _)
\* What parse_poly_set logged in the first n zones: once for each copper
\* layer of a zone that is not passed over.
ZonesLog(zns, n) ==
    IF n = 0 THEN <<>>
    ELSE LET log == parse_poly_set(zns[n].polys).log
             times == IF ZoneSkipped(zns[n]) THEN 0 ELSE Len(ZoneLayers(zns[n]))
         IN  ZonesLog(zns, n - 1)
                 \o (IF times >= 1 THEN log ELSE <<>>)
                 \o (IF times = 2 THEN log ELSE <<>>)

\* parse_zones, lines 439-469.
parse_zones(zns, include_nets) ==
    [ret |-> [F |-> ZonesOfLayer(zns, Len(zns), "F_Cu", include_nets),
              B |-> ZonesOfLayer(zns, Len(zns), "B_Cu", include_nets)],
     log |-> ZonesLog(zns, Len(zns))]

\* Lines 586-591: the 'tracks' and 'zones' of the document, and what was
\* logged. zns.has_Zones says whether the board has the method Zones.
TracksAndZones(cfg, trks, zns) ==
    IF zns.has_Zones
    THEN [data |-> [tracks |-> parse_tracks(trks, cfg.include_nets),
                    zones |-> parse_zones(zns.list, cfg.include_nets).ret],
          log |-> parse_zones(zns.list, cfg.include_nets).log]
    ELSE [data |-> [tracks |-> parse_tracks(trks, cfg.include_nets),
                    zones |-> [F |-> <<>>, B |-> <<>>]],
          log |-> <<[level |-> "info",
                     msg |-> "Zones not supported for KiCad 4, skipping"]>>]

\* Lines 585-593: pcbdata with the keys the configuration adds to it.
\* optional is what lines 586-591 made; info.has_GetNetInfo says whether
\* the board has the method GetNetInfo.
PcbData(pcbdata, cfg, optional, info) ==
    LET with_tracks == IF cfg.include_tracks THEN pcbdata @@ optional.data ELSE pcbdata
    IN  IF cfg.include_nets /\ info.has_GetNetInfo
        THEN with_tracks @@ [nets |-> parse_netlist(info)]
        ELSE with_tracks

\* The run of parse above completed: the pads' nets and the optional keys
\* in the document, and the log of lines 585-591 before the warnings of
\* lines 596-611, which are extra.log.
BoardRun(run, cfg, fps, optional, extra, info) ==
    IF run.ret.kind = "raise" THEN run
    ELSE IF run.ret.pcbdata = None THEN run
    ELSE [ret |-> [kind |-> "return",
                   pcbdata |->
                      PcbData([edges_bbox |-> run.ret.pcbdata.edges_bbox,
                               edges |-> run.ret.pcbdata.edges,
                               footprints |-> parse_footprints(fps, cfg.include_nets)],
                              cfg, optional, info),
                   components |-> run.ret.components],
          fonts |-> run.fonts,
          log |-> SubSeq(run.log, 1, Len(run.log) - Len(extra.log))
                      \o (IF cfg.include_tracks THEN optional.log ELSE <<>>)
                      \o extra.log]

\* parse, lines 505-616, on a board with tracks, zones and nets.
parse_board(cfg, nl, pcb, fps, trks, zns, info) ==
    BoardRun(parse(cfg, nl, pcb, fps), cfg, fps, TracksAndZones(cfg, trks, zns),
             ExtraFields(fps, cfg, nl), info)
\* The ways to cut a list of n pads into k consecutive runs: the end of each.
Cuts(k, n) ==
    {c \in [1..k -> 0..n] :
        /\ \A i \in 1..k : i > 1 => c[i - 1] <= c[i]
        /\ k > 0 => c[k] = n}

\* Run i of the list s cut at c.
Run(s, c, i) == SubSeq(s, (IF i = 1 THEN 0 ELSE c[i - 1]) + 1, c[i])

\* The reference of the i-th footprint of the board.
Refs == <<"R1", "R2", "R3", "R4", "R5", "R6">>

\* The footprints of a board whose pads, in board order, are ps, cut at c.
\* They have no graphical items.
BoardFootprints(ps, c, k) ==
    [i \in 1..k |-> [ref |-> Refs[i], pads |-> Run(ps, c, i), graphics |-> <<>>]]

\* The variables that parse_footprints does not use.
IdleFootprints ==
    /\ IdleNets
    /\ d = None /\ tracks = None /\ polygon_set = None /\ board = None
    /\ config = None /\ netlist = None /\ ret = None
    /\ font_parser = <<>> /\ logger = <<>>

InitFootprints ==
    /\ pc = "parse_footprints"
    /\ IdleFootprints
    /\ \E k \in 0..MaxFootprints, ps \in PadSeqs :
         /\ k = 0 => ps = <<>>
         /\ \E c \in Cuts(k, Len(ps)) : self_footprints = BoardFootprints(ps, c, k)
    /\ footprints = None

ParseFootprints ==
    /\ pc = "parse_footprints"
    /\ footprints' = ParseFootprintsOp(self_footprints)
    /\ pc' = "done"
    /\ UNCHANGED <<netVars, self_footprints, d, tracks, polygon_set, board, config, netlist,
                   ret, font_parser, logger>>

SpecFootprints == InitFootprints /\ [][ParseFootprints]_vars


----------------------------------------------------------------------------
(* SpecArcs: parse_shape on one drawing, parse_tracks on a list of tracks *)

\* The angles of a drawing lie in -MaxAngle..MaxAngle; most tracks of a board.
MaxAngle == 16
MaxTracks == 2

\* A graphic item of class PCB_SHAPE.
ShapeD(layer, shape, astart, angle, has_poly, poly, bbox) ==
    [cls |-> "PCB_SHAPE", layer |-> layer, shape |-> shape, astart |-> astart,
     angle |-> angle, has_GetPolyShape |-> has_poly, poly |-> poly, bbox |-> bbox]

\* The points of the outlines of the model, in nanometres.
Points == {[x |-> 0, y |-> 1500000], [x |-> -2000000, y |-> 7]}

UnitBBox == [x |-> 0, y |-> 0, w |-> 1, h |-> 1]

\* One outline of two points, and one without PointCount.
SamplePoly ==
    <<[has_PointCount |-> TRUE,
       points |-> <<[x |-> 0, y |-> 1500000], [x |-> -2000000, y |-> 7]>>],
      [has_PointCount |-> FALSE, points |-> <<>>]>>

ShapeInputs ==
    {ShapeD("F_SilkS", "arc", a, w, TRUE, <<>>, UnitBBox) :
        a \in -MaxAngle..MaxAngle, w \in -MaxAngle..MaxAngle}
    \cup {ShapeD("F_SilkS", s, 0, 0, TRUE, <<>>, UnitBBox) :
            s \in {"segment", "rect", "circle", "curve", ""}}
    \cup {ShapeD("F_SilkS", "polygon", 0, 0, h, SamplePoly, UnitBBox) : h \in BOOLEAN}

\* The start angles and sweeps of the arc tracks of the model.
TrackStartAngles == {-15, 5}
TrackSweeps == {-25, 0, 15}

TrackInputs ==
    {[cls |-> "VIA", layer |-> "F_Cu", on_layers |-> on, astart |-> 0, angle |-> 0,
      net |-> "GND"] : on \in SUBSET {"F_Cu", "B_Cu"}}
    \cup {[cls |-> "ARC", layer |-> l, on_layers |-> {l}, astart |-> a, angle |-> w,
           net |-> "GND"] :
            l \in {"F_Cu", "B_Cu", "In1_Cu"}, a \in TrackStartAngles, w \in TrackSweeps}
    \cup {[cls |-> "TRACK", layer |-> l, on_layers |-> {l}, astart |-> 0, angle |-> 0,
           net |-> "GND"] : l \in {"F_Cu", "B_Cu", "In1_Cu"}}

TrackSeqs == UNION {[1..n -> TrackInputs] : n \in 0..MaxTracks}

InitArcs ==
    /\ IdleNets
    /\ self_footprints = None /\ footprints = None /\ polygon_set = None
    /\ board = None /\ netlist = None /\ ret = None
    /\ font_parser = <<>> /\ logger = <<>>
    /\ \/ /\ pc = "parse_shape"
          /\ d \in ShapeInputs
          /\ tracks = None
          /\ config = None
       \/ /\ pc = "parse_tracks"
          /\ d = None
          /\ tracks \in TrackSeqs
          /\ config \in [include_nets : BOOLEAN]

ParseShape ==
    /\ pc = "parse_shape"
    /\ ret' = parse_shape(d).ret
    /\ logger' = logger \o parse_shape(d).log
    /\ pc' = "done"
    /\ UNCHANGED <<netVars, fpVars, d, tracks, polygon_set, board, config, netlist, font_parser>>

ParseTracks ==
    /\ pc = "parse_tracks"
    /\ ret' = parse_tracks(tracks, config.include_nets)
    /\ pc' = "done"
    /\ UNCHANGED <<netVars, fpVars, d, tracks, polygon_set, board, config, netlist, font_parser,
                   logger>>

SpecArcs == InitArcs /\ [][ParseShape \/ ParseTracks]_vars

----------------------------------------------------------------------------
(* SpecPoly: parse_poly_set on one polygon set *)

\* Most outlines of a polygon set, most points of an outline.
MaxOutlines == 3
MaxPoints == 2

Outlines ==
    {[has_PointCount |-> FALSE, points |-> <<>>]}
    \cup {[has_PointCount |-> TRUE, points |-> ps] :
            ps \in UNION {[1..n -> Points] : n \in 0..MaxPoints}}

PolySets == UNION {[1..n -> Outlines] : n \in 0..MaxOutlines}

InitPoly ==
    /\ IdleNets
    /\ pc = "parse_poly_set"
    /\ polygon_set \in PolySets
    /\ self_footprints = None /\ footprints = None /\ d = None /\ tracks = None
    /\ board = None /\ config = None /\ netlist = None /\ ret = None
    /\ font_parser = <<>> /\ logger = <<>>

ParsePolySet ==
    /\ pc = "parse_poly_set"
    /\ ret' = parse_poly_set(polygon_set).ret
    /\ logger' = logger \o parse_poly_set(polygon_set).log
    /\ pc' = "done"
    /\ UNCHANGED <<netVars, fpVars, d, tracks, polygon_set, board, config, netlist, font_parser>>

SpecPoly == InitPoly /\ [][ParsePolySet]_vars

----------------------------------------------------------------------------
(* SpecText: parse_text on one text *)

\* Most segments TransformToSegmentList gives for a text.
MaxSegments == 2

\* A text item.
TextD(cls, layer, visible, stroke, text, segments, mirrored, italic, bold, bbox) ==
    [cls |-> cls, layer |-> layer, visible |-> visible, stroke |-> stroke,
     text |-> text, segments |-> segments, mirrored |-> mirrored,
     italic |-> italic, bold |-> bold, bbox |-> bbox]

\* The end points of the strokes of a text, in nanometres.
StrokePoints == {<<0, 0>>, <<1000000, 0>>, <<1000000, 2000000>>}

\* The flat lists of the end points of at most MaxSegments segments.
SegmentLists == UNION {[1..(2 * n) -> StrokePoints] : n \in 0..MaxSegments}

Texts == {"R1", "10k"}

TextInputs ==
    {TextD("PTEXT", "F_SilkS", v, TRUE, t, s, FALSE, FALSE, FALSE, UnitBBox) :
        v \in BOOLEAN, t \in Texts, s \in SegmentLists}
    \cup {TextD(c, "F_SilkS", v, FALSE, t, <<>>, m, i, b, UnitBBox) :
            c \in {"PTEXT", "MTEXT"}, v \in BOOLEAN, t \in Texts,
            m \in BOOLEAN, i \in BOOLEAN, b \in BOOLEAN}

InitText ==
    /\ IdleNets
    /\ pc = "parse_text"
    /\ d \in TextInputs
    /\ self_footprints = None /\ footprints = None /\ polygon_set = None
    /\ tracks = None /\ board = None /\ config = None /\ netlist = None
    /\ ret = None /\ font_parser = <<>> /\ logger = <<>>

ParseText ==
    /\ pc = "parse_text"
    /\ ret' = parse_text(d).ret
    /\ font_parser' = font_parser \o parse_text(d).fonts
    /\ pc' = "done"
    /\ UNCHANGED <<netVars, fpVars, d, tracks, polygon_set, board, config, netlist, logger>>

SpecText == InitText /\ [][ParseText]_vars

----------------------------------------------------------------------------
(* SpecParse: parse on one board, configuration and netlist file *)

\* Most drawings of the board and its footprints together, and most
\* footprints of the board parse is run on.
MaxDrawings == 2
MaxParsedFootprints == 1

\* The bounding boxes of the outline drawings of the model, in nanometres.
BBoxes ==
    {[x |-> 0, y |-> 0, w |-> 10000000, h |-> 5000000],
     [x |-> 3000000, y |-> 8000000, w |-> -5000000, h |-> -2000000],
     [x |-> 12000000, y |-> -1000000, w |-> 1000000, h |-> 3000000]}

\* The drawings of the model: on Edge_Cuts a segment, a visible text drawn
\* from its metadata and a shape parse_shape does not know; a segment on the
\* silkscreen.
DrawingInputs ==
    {ShapeD("Edge_Cuts", "segment", 0, 0, TRUE, <<>>, b) : b \in BBoxes}
    \cup {TextD("PTEXT", "Edge_Cuts", TRUE, FALSE, "REV", <<>>, FALSE, FALSE, FALSE,
                [x |-> -1000000, y |-> 1000000, w |-> 2000000, h |-> 1000000]),
          ShapeD("Edge_Cuts", "", 0, 0, TRUE, <<>>, UnitBBox),
          ShapeD("F_SilkS", "segment", 0, 0, TRUE, <<>>, UnitBBox)}

DrawingSeqs == UNION {[1..n -> DrawingInputs] : n \in 0..MaxDrawings}

\* The pads of every footprint of the board parse is run on.
ParsedFootprintPads == <<[name |-> "2", ok |-> TRUE], [name |-> "1", ok |-> TRUE]>>

\* The configurations: at most one of the four settings that ask for extra
\* fields is set, and a netlist file is named or not.
Configs ==
    {[extra_fields |-> (s = "extra_fields"),
      board_variant_whitelist |-> (s = "board_variant_whitelist"),
      board_variant_blacklist |-> (s = "board_variant_blacklist"),
      dnp_field |-> (s = "dnp_field"),
      netlist_file |-> f] :
        s \in {"", "extra_fields", "board_variant_whitelist",
               "board_variant_blacklist", "dnp_field"},
        f \in {"", "board.xml"}}

\* The fields the netlist has for one component.
FieldsOf(ref) == [Value |-> ref]

\* What extra_data_func can return: None, or the field names and the map
\* from reference to fields, which may be empty or lack a footprint.
SchematicData ==
    {None}
    \cup {[fields |-> <<"Value">>, map |-> EmptyDict]}
    \cup {[fields |-> <<"Value">>, map |-> [R1 |-> FieldsOf("R1")]]}
    \cup {[fields |-> <<"Value">>, map |-> [R2 |-> FieldsOf("R2")]]}

\* The file config.netlist_file names: whether os.path.isfile finds it and
\* what extra_data_func returns for it.
Netlists(cfg) ==
    IF cfg.netlist_file = "" THEN {[isfile |-> FALSE, data |-> None]}
    ELSE {[isfile |-> FALSE, data |-> None]}
         \cup {[isfile |-> TRUE, data |-> dt] : dt \in SchematicData}

InitParse ==
    /\ IdleNets
    /\ pc = "parse"
    /\ config \in Configs
    /\ netlist \in Netlists(config)
    /\ \E k \in 0..MaxParsedFootprints, ds \in DrawingSeqs :
           \E c \in Cuts(k + 1, Len(ds)) :
               /\ board = Run(ds, c, 1)
               /\ self_footprints =
                      [i \in 1..k |->
                          [ref |-> Refs[i], pads |-> ParsedFootprintPads,
                           graphics |-> Run(ds, c, i + 1)]]
    /\ footprints = None /\ d = None /\ tracks = None /\ polygon_set = None
    /\ ret = None /\ font_parser = <<>> /\ logger = <<>>

Parse ==
    /\ pc = "parse"
    /\ LET run == parse(config, netlist, board, self_footprints)
       IN  /\ ret' = run.ret
           /\ font_parser' = font_parser \o run.fonts
           /\ logger' = logger \o run.log
    /\ pc' = "done"
    /\ UNCHANGED <<netVars, fpVars, d, tracks, polygon_set, board, config, netlist>>

SpecParse == InitParse /\ [][Parse]_vars

----------------------------------------------------------------------------
(* SpecNetlist: parse_netlist on the nets of one board *)

\* The keys of a dict of nets by name: every name at most once, in any order.
NetKeyLists ==
    {ks \in UNION {[1..n -> {[utf8 |-> nm] : nm \in NetNames}] :
                     n \in 0..Cardinality(NetNames)} :
        \A i, j \in 1..Len(ks) : ks[i] = ks[j] => i = j}

InitNetlist ==
    /\ pc = "parse_netlist"
    /\ net_info \in {[has_GetNetInfo |-> TRUE, NetsByName |-> ks] : ks \in NetKeyLists}
    /\ zones = None
    /\ self_footprints = None /\ footprints = None /\ d = None /\ tracks = None
    /\ polygon_set = None /\ board = None /\ config = None /\ netlist = None
    /\ ret = None /\ font_parser = <<>> /\ logger = <<>>

ParseNetlist ==
    /\ pc = "parse_netlist"
    /\ ret' = parse_netlist(net_info)
    /\ pc' = "done"
    /\ UNCHANGED <<netVars, fpVars, d, tracks, polygon_set, board, config, netlist,
                   font_parser, logger>>

SpecNetlist == InitNetlist /\ [][ParseNetlist]_vars

----------------------------------------------------------------------------
(* SpecBoard: parse on one board with pads, tracks, zones and nets *)

\* Most pads of the footprint, most tracks and most zones of the board.
MaxBoardPads == 1
MaxBoardTracks == 1
MaxZones == 1

\* The pads of the board: one on a net, one whose shape parse_pad does not know.
BoardPadInputs ==
    {[name |-> "1", ok |-> TRUE, net |-> "GND"],
     [name |-> "2", ok |-> FALSE, net |-> ""]}

BoardPadSeqs == UNION {[1..n -> BoardPadInputs] : n \in 0..MaxBoardPads}

\* The tracks of the board: a through via, a via between inner layers, an
\* arc on the front, and straight tracks on the back and on an inner layer.
BoardTrackInputs ==
    {t \in TrackInputs :
        \/ t.cls = "VIA" /\ t.on_layers \in {{"F_Cu", "B_Cu"}, {}}
        \/ t.cls = "ARC" /\ t.layer = "F_Cu" /\ t.astart = 5 /\ t.angle = -25
        \/ t.cls = "TRACK" /\ t.layer \in {"B_Cu", "In1_Cu"}}

BoardTrackSeqs == UNION {[1..n -> BoardTrackInputs] : n \in 0..MaxBoardTracks}

\* The zones of the board: a filled zone on both outer layers, one on an
\* inner layer, an unfilled zone and a keepout area.
ZoneInputs ==
    {[filled |-> TRUE, keepout |-> FALSE, rule_area |-> FALSE,
      layers |-> <<"F_Cu", "B_Cu">>, net |-> "GND", polys |-> SamplePoly],
     [filled |-> TRUE, keepout |-> FALSE, rule_area |-> FALSE,
      layers |-> <<"In1_Cu">>, net |-> "GND", polys |-> SamplePoly],
     [filled |-> FALSE, keepout |-> FALSE, rule_area |-> FALSE,
      layers |-> <<"F_Cu">>, net |-> "+5V", polys |-> SamplePoly],
     [filled |-> TRUE, keepout |-> TRUE, rule_area |-> TRUE,
      layers |-> <<"B_Cu">>, net |-> "", polys |-> SamplePoly]}

\* A board without the method Zones, or the zones of a board that has it.
BoardZones ==
    {[has_Zones |-> FALSE, list |-> <<>>]}
    \cup {[has_Zones |-> TRUE, list |-> zs] :
            zs \in UNION {[1..n -> ZoneInputs] : n \in 0..MaxZones}}

\* A board without the method GetNetInfo, or the nets of a board that has it.
BoardNetInfo ==
    {[has_GetNetInfo |-> FALSE, NetsByName |-> <<>>],
     [has_GetNetInfo |-> TRUE, NetsByName |-> <<[utf8 |-> "GND"], [utf8 |-> ""]>>]}

\* The configurations: no extra fields asked for, tracks and nets in or out.
BoardConfigs ==
    {[extra_fields |-> FALSE, board_variant_whitelist |-> FALSE,
      board_variant_blacklist |-> FALSE, dnp_field |-> FALSE, netlist_file |-> "",
      include_tracks |-> t, include_nets |-> n] : t \in BOOLEAN, n \in BOOLEAN}

\* The drawings of the board: none, or one segment on Edge_Cuts.
BoardOutlines ==
    {<<>>,
     <<ShapeD("Edge_Cuts", "segment", 0, 0, TRUE, <<>>,
              [x |-> 0, y |-> 0, w |-> 10000000, h |-> 5000000])>>}

InitBoard ==
    /\ pc = "parse_board"
    /\ config \in BoardConfigs
    /\ netlist = [isfile |-> FALSE, data |-> None]
    /\ board \in BoardOutlines
    /\ \E ps \in BoardPadSeqs :
           self_footprints = <<[ref |-> Refs[1], pads |-> ps, graphics |-> <<>>]>>
    /\ tracks \in BoardTrackSeqs
    /\ zones \in BoardZones
    /\ net_info \in BoardNetInfo
    /\ footprints = None /\ d = None /\ polygon_set = None
    /\ ret = None /\ font_parser = <<>> /\ logger = <<>>

ParseBoard ==
    /\ pc = "parse_board"
    /\ LET run == parse_board(config, netlist, board, self_footprints, tracks, zones,
                              net_info)
       IN  /\ ret' = run.ret
           /\ font_parser' = font_parser \o run.fonts
           /\ logger' = logger \o run.log
    /\ pc' = "done"
    /\ UNCHANGED <<netVars, fpVars, d, tracks, polygon_set, board, config, netlist>>

SpecBoard == InitBoard /\ [][ParseBoard]_vars
----------------------------------------------------------------------------
(* Claims about parse_footprints, under SpecFootprints *)

\* The pads of footprint i that parse_pad accepted, by their place in f.Pads().
ParsedPads(i) ==
    {n \in 1..Len(self_footprints[i].pads) : self_footprints[i].pads[n].ok}

\* The designator of pad n of footprint i, read from the board.
PadName(i, n) == self_footprints[i].pads[n].name

\* The places in the emitted pad list of footprint i that carry 'pin1'.
Flagged(i) == {j \in 1..Len(footprints[i].pads) : footprints[i].pads[j].pin1}

\* The least of a non-empty set of designators in Python's order on str.
LeastName(names) == CHOOSE a \in names : \A b \in names : StrLeq(a, b)

\* C1 as the spec states it: in every footprint parse_footprints emits, the
\* number of pads carrying pin1 is 0 or 1, and it is 1 when a pad was parsed.
C1_AtMostOnePin1 ==
    pc = "done" =>
        \A i \in 1..Len(footprints) :
            /\ Cardinality(Flagged(i)) \in {0, 1}
            /\ ParsedPads(i) # {} => Cardinality(Flagged(i)) = 1

\* C1 amended: in every footprint parse_footprints emits, all pads carrying
\* pin1 have one and the same designator, every emitted pad of that
\* designator carries pin1, at least one pad carries pin1 when a pad was
\* parsed and none otherwise; so the number of flagged pads is the number of
\* parsed pads sharing the chosen designator, which is 1 when the parsed
\* pads have distinct designators.
C1_Pin1OneDesignator ==
    pc = "done" =>
        \A i \in 1..Len(footprints) :
            LET out == footprints[i].pads
                chosen == {PadName(i, out[j].pad) : j \in Flagged(i)}
            IN  /\ Cardinality(chosen) <= 1
                /\ ParsedPads(i) # {} <=> Flagged(i) # {}
                /\ \A j \in 1..Len(out) :
                       PadName(i, out[j].pad) \in chosen => j \in Flagged(i)
                /\ Cardinality(Flagged(i)) =
                       Cardinality({n \in ParsedPads(i) : PadName(i, n) \in chosen})
                /\ (\A m, n \in ParsedPads(i) : PadName(i, m) = PadName(i, n) => m = n)
                       => Cardinality(Flagged(i)) <= 1

\* C1's case: a footprint with two parsed pads of the chosen designator.
C1_Witness ==
    /\ pc = "done"
    /\ \E i \in 1..Len(footprints) : Cardinality(Flagged(i)) = 2

\* C2: the designator parse_footprints marks in a footprint with a parsed pad
\* is the least designator (in str order) among the parsed pads named in
\* Pin1Names when there is one, else the least designator of all parsed
\* pads; it is a function of the set of parsed designators alone.
C2_Pin1Selection ==
    pc = "done" =>
        \A i \in 1..Len(footprints) :
            LET names == {PadName(i, n) : n \in ParsedPads(i)}
                matching == names \cap Pin1Names
                expected == IF matching # {} THEN LeastName(matching)
                            ELSE LeastName(names)
            IN  names # {} =>
                    {PadName(i, footprints[i].pads[j].pad) : j \in Flagged(i)}
                        = {expected}

\* C2's case: the board lists "A1" after a pad "10" that sorts before it and
\* is no first-pin name, so the preferred name wins over the least one.
C2_Witness ==
    /\ pc = "done"
    /\ \E i \in 1..Len(footprints) :
           /\ {PadName(i, n) : n \in ParsedPads(i)} = {"10", "A1", "2"}
           /\ \E j \in Flagged(i) : PadName(i, footprints[i].pads[j].pad) = "A1"

\* C7 as the spec states it: the pads of an emitted footprint are in the
\* order in which the board lists them (skipped pads removed), and the
\* footprints are in board order.
C7_PadsInBoardOrder ==
    pc = "done" =>
        /\ Len(footprints) = Len(self_footprints)
        /\ \A i \in 1..Len(footprints) :
               /\ footprints[i].ref = self_footprints[i].ref
               /\ \A j, k \in 1..Len(footprints[i].pads) :
                      j < k => footprints[i].pads[j].pad < footprints[i].pads[k].pad

\* C7 amended: the footprints are emitted in board order; the emitted pads
\* of a footprint are exactly its parsed pads, each once, in ascending order
\* of designator (str order), pads of equal designator in board order.
C7_PadsSortedByDesignator ==
    pc = "done" =>
        /\ Len(footprints) = Len(self_footprints)
        /\ \A i \in 1..Len(footprints) :
               LET out == footprints[i].pads
               IN  /\ footprints[i].ref = self_footprints[i].ref
                   /\ {out[j].pad : j \in 1..Len(out)} = ParsedPads(i)
                   /\ Len(out) = Cardinality(ParsedPads(i))
                   /\ \A j, k \in 1..Len(out) :
                          j < k =>
                              \/ StrLess(PadName(i, out[j].pad), PadName(i, out[k].pad))
                              \/ /\ PadName(i, out[j].pad) = PadName(i, out[k].pad)
                                 /\ out[j].pad < out[k].pad

\* C7's case: two footprints, one whose pads the board lists out of
\* designator order and with a repeated designator.
C7_Witness ==
    /\ pc = "done"
    /\ Len(footprints) = 2
    /\ \E i \in 1..Len(footprints) :
           /\ Len(footprints[i].pads) = 3
           /\ footprints[i].pads[1].pad = 2
           /\ footprints[i].pads[2].pad = 3
           /\ PadName(i, 2) = PadName(i, 3)

----------------------------------------------------------------------------
(* Claims about the arcs of parse_shape and parse_tracks, under SpecArcs *)

\* r hundredths of a degree is a/1000 degree rounded to two decimals.
IsRounded(a, r) == 10 * r - 5 <= a /\ a <= 10 * r + 5

\* An emitted arc record against the start angle and sweep of its source.
ArcRecordOk(rec, astart, angle) ==
    /\ rec.startangle <= rec.endangle
    /\ IsRounded(IF angle < 0 THEN astart + angle ELSE astart, rec.startangle)
    /\ IsRounded(IF angle < 0 THEN astart ELSE astart + angle, rec.endangle)

\* The arc records of a list parse_tracks returned are right.
ArcTracksOk(list) ==
    \A j \in 1..Len(list) :
        tracks[list[j].track].cls = "ARC" =>
            ArcRecordOk(list[j], tracks[list[j].track].astart,
                        tracks[list[j].track].angle)

\* C3: every arc parse_shape returns and every arc track parse_tracks emits
\* has startangle <= endangle, the two being the source's start angle and
\* start angle plus sweep in degrees rounded to 2 decimals, in this order
\* for a sweep >= 0 and exchanged for a negative sweep.
C3_ArcAnglesOrdered ==
    pc = "done" =>
        /\ (d # None /\ d.shape = "arc") => ArcRecordOk(ret, d.astart, d.angle)
        /\ d = None => ArcTracksOk(ret.F) /\ ArcTracksOk(ret.B)

\* C3's case: parse_shape has returned an arc of negative sweep whose angles
\* are not whole hundredths of a degree and differ after rounding.
C3_Witness ==
    /\ pc = "done"
    /\ d # None
    /\ d.shape = "arc"
    /\ d.angle < 0
    /\ d.astart % 10 # 0
    /\ (d.astart + d.angle) % 10 # 0
    /\ ret.startangle < ret.endangle

----------------------------------------------------------------------------
(* Claims about parse_poly_set, under SpecPoly *)

\* The first outline without PointCount, or one past the last outline.
FirstWithoutPointCount ==
    LET bad == {i \in 1..Len(polygon_set) : ~polygon_set[i].has_PointCount}
    IN  IF bad = {} THEN Len(polygon_set) + 1
        ELSE CHOOSE i \in bad : \A j \in bad : i <= j

\* C10: parse_poly_set returns one point list per outline that precedes the
\* first outline without point enumeration (all outlines when there is none),
\* in source order, each with the points of its outline in their order and
\* only scaled to millimetres; it returns a list in every case and warns
\* exactly when it stopped early.
C10_PolySetPreserved ==
    pc = "done" =>
        /\ Len(ret) = FirstWithoutPointCount - 1
        /\ \A i \in 1..Len(ret) :
               LET points == polygon_set[i].points
               IN  /\ Len(ret[i]) = Len(points)
                   /\ \A j \in 1..Len(points) :
                          ret[i][j] = <<<<points[j].x, Scale>>, <<points[j].y, Scale>>>>
        /\ (logger # <<>>) <=> (FirstWithoutPointCount <= Len(polygon_set))

\* C10's case: an outline of two different points, then one without
\* PointCount, then another outline with points, which is dropped.
C10_Witness ==
    /\ pc = "done"
    /\ Len(polygon_set) = 3
    /\ Len(polygon_set[1].points) = 2
    /\ polygon_set[1].points[1] # polygon_set[1].points[2]
    /\ ~polygon_set[2].has_PointCount
    /\ Len(polygon_set[3].points) > 0
    /\ Len(ret) = 1

----------------------------------------------------------------------------
(* Claims about parse_text, under SpecText *)

\* C8 as the spec states it: the shown string of every visible text is given
\* to the font parser before parse_text returns, on the stroke path and on
\* the metadata path; an invisible text is not, and yields None.
C8_ShownTextForwarded ==
    pc = "done" =>
        /\ d.visible => font_parser = <<d.text>>
        /\ ~d.visible => font_parser = <<>> /\ ret = None

\* C8 amended: on the metadata path (the host has no TransformToSegmentList)
\* the shown string of a visible text is given to the font parser before
\* parse_text returns; on the stroke path parse_text returns the path and
\* gives nothing to the font parser; an invisible text is never forwarded
\* and yields None.
C8_ForwardedOnMetadataPath ==
    pc = "done" =>
        /\ (d.visible /\ ~d.stroke) =>
               /\ font_parser = <<d.text>>
               /\ ret # None
               /\ ret.text = d.text
        /\ (d.visible /\ d.stroke) => font_parser = <<>> /\ ret # None
        /\ ~d.visible => font_parser = <<>> /\ ret = None

\* C8's case: a visible text of two strokes went down the stroke path.
C8_Witness ==
    /\ pc = "done"
    /\ d.visible
    /\ d.stroke
    /\ Len(d.segments) = 4
    /\ ret # None
    /\ font_parser = <<>>

----------------------------------------------------------------------------
(* Claims about parse and parse_edges, under SpecParse *)

\* The drawings of the board followed by the graphical items of its footprints.
AllDrawings == board \o GraphicalItems(self_footprints, Len(self_footprints))

\* A drawing that normalizes to a record: a shape of a kind parse_shape
\* knows (a polygon only on a host with GetPolyShape), or a visible text.
Normalizes(dd) ==
    \/ /\ dd.cls \in {"DRAWSEGMENT", "MGRAPHIC", "PCB_SHAPE"}
       /\ dd.shape \in {"segment", "rect", "circle", "arc", "curve", "polygon"}
       /\ dd.shape = "polygon" => dd.has_GetPolyShape
    \/ /\ dd.cls \in {"PTEXT", "MTEXT"}
       /\ dd.visible

\* The outline drawings of a list: on Edge_Cuts and normalizing to a record.
OutlinesOf(drawings) ==
    {n \in 1..Len(drawings) :
        drawings[n].layer = "Edge_Cuts" /\ Normalizes(drawings[n])}

\* The configuration asks for extra fields.
Requested ==
    \/ config.extra_fields
    \/ config.board_variant_whitelist
    \/ config.board_variant_blacklist
    \/ config.dnp_field

\* A netlist file is named, and it does not exist or parsing it gave nothing.
NamedFileUnavailable ==
    /\ config.netlist_file # ""
    /\ ~netlist.isfile \/ netlist.data = None

\* parse returned, and returned no document and no components.
ReturnedNothing ==
    /\ ret.kind = "return"
    /\ ret.pcbdata = None
    /\ ret.components = None

\* C4: when neither the board nor any footprint has an Edge_Cuts drawing
\* that normalizes to a record, parse returns no pcbdata, whatever the
\* configuration: it raises or it returns (None, None).
C4_NoOutlineNoDocument ==
    (pc = "done" /\ OutlinesOf(AllDrawings) = {}) =>
        ret.kind = "raise" \/ ReturnedNothing

\* C4's case: extra fields are asked for and there, the board has Edge_Cuts
\* drawings but none parse_shape knows, and parse has returned (None, None).
C4_Witness ==
    /\ pc = "done"
    /\ Requested
    /\ netlist.isfile
    /\ netlist.data # None
    /\ \E n \in 1..Len(AllDrawings) : AllDrawings[n].layer = "Edge_Cuts"
    /\ OutlinesOf(AllDrawings) = {}
    /\ ReturnedNothing

\* C5 as the spec states it: when extra fields are asked for and no source
\* is there (no netlist file named, the named file missing, or nothing
\* parsed from it), parse fails; it does not fail when none are asked for.
C5_RequestedUnavailableFails ==
    pc = "done" =>
        /\ (Requested /\ (config.netlist_file = "" \/ NamedFileUnavailable))
               => ret.kind = "raise"
        /\ ~Requested => ret.kind = "return"

\* The configuration with none of the settings that ask for extra fields.
Unrequesting(cfg) ==
    [cfg EXCEPT !.extra_fields = FALSE, !.board_variant_whitelist = FALSE,
                !.board_variant_blacklist = FALSE, !.dnp_field = FALSE]

\* C5 amended: when extra fields are asked for and a netlist file is named
\* that does not exist or from which nothing is parsed, parse raises
\* ParsingException and returns nothing; when they are asked for and no
\* netlist file is named, parse logs a warning, drops the request and returns
\* what it returns for the same board with no extra fields asked for; when
\* none are asked for, parse never raises.
C5_NamedFileUnavailableFails ==
    pc = "done" =>
        /\ (Requested /\ NamedFileUnavailable) =>
               ret = [kind |-> "raise", exc |-> "ParsingException"]
        /\ (Requested /\ config.netlist_file = "") =>
               /\ ret.kind = "return"
               /\ logger # <<>>
               /\ logger[1] = [level |-> "warn", msg |-> "Ignoring extra fields"]
               /\ ret = parse(Unrequesting(config), netlist, board, self_footprints).ret
        /\ ~Requested => ret.kind = "return"

\* C5's case: extra fields asked for, no netlist file named, and parse has
\* returned a document.
C5_Witness ==
    /\ pc = "done"
    /\ Requested
    /\ config.netlist_file = ""
    /\ ret.kind = "return"
    /\ ret.pcbdata # None

\* C6 as the spec states it: a board without outline and extra fields that
\* are asked for but not to be had both end parse with a ParsingException.
C6_BothFailuresRaise ==
    (pc = "done" /\ ((Requested /\ NamedFileUnavailable) \/ OutlinesOf(AllDrawings) = {}))
        => ret = [kind |-> "raise", exc |-> "ParsingException"]

\* C6 amended: parse raises exactly when extra fields are asked for and the
\* named netlist file is missing or unparseable, and what it raises is a
\* ParsingException; a board without outline (the extra fields being fine)
\* ends parse with an error in the log and the normal return value
\* (None, None), and every other board with a return value whose pcbdata is
\* not None.
C6_FailureKinds ==
    pc = "done" =>
        /\ ret.kind = "raise" <=> (Requested /\ NamedFileUnavailable)
        /\ ret.kind = "raise" => ret.exc = "ParsingException"
        /\ (ret.kind = "return" /\ OutlinesOf(AllDrawings) = {}) =>
               /\ ReturnedNothing
               /\ logger # <<>>
               /\ logger[Len(logger)].level = "error"
        /\ (ret.kind = "return" /\ OutlinesOf(AllDrawings) # {}) =>
               /\ ret.pcbdata # None
               /\ \A n \in 1..Len(logger) : logger[n].level # "error"

\* C6's case: nothing is asked for, the board has no drawing at all, and
\* parse has logged the error and returned (None, None).
C6_Witness ==
    /\ pc = "done"
    /\ ~Requested
    /\ AllDrawings = <<>>
    /\ ReturnedNothing
    /\ logger = <<[level |-> "error", msg |-> "Please draw pcb outline"]>>

\* The least and the greatest of a non-empty set of integers.
Least(S) == CHOOSE a \in S : \A b \in S : a <= b

Greatest(S) == CHOOSE a \in S : \A b \in S : a >= b

\* The smallest box, in millimetres, that covers the bounding boxes of the
\* outline drawings of a list.
CoveringBox(drawings) ==
    LET boxes == {drawings[n].bbox : n \in OutlinesOf(drawings)}
    IN  [minx |-> <<Least({Min(b.x, b.x + b.w) : b \in boxes}), Scale>>,
         miny |-> <<Least({Min(b.y, b.y + b.h) : b \in boxes}), Scale>>,
         maxx |-> <<Greatest({Max(b.x, b.x + b.w) : b \in boxes}), Scale>>,
         maxy |-> <<Greatest({Max(b.y, b.y + b.h) : b \in boxes}), Scale>>]

\* The drawings in the order p.
Permuted(drawings, p) == [n \in 1..Len(drawings) |-> drawings[p[n]]]

\* C9: the edges_bbox of the document is the smallest box covering the
\* bounding box of every outline drawing, has minx <= maxx and miny <= maxy,
\* and is what parse_edges computes for the same drawings in any other order.
C9_OutlineBBoxOrderIndependent ==
    (pc = "done" /\ ret.kind = "return" /\ ret.pcbdata # None) =>
        LET bbox == ret.pcbdata.edges_bbox
        IN  /\ bbox = CoveringBox(AllDrawings)
            /\ bbox.minx[1] <= bbox.maxx[1]
            /\ bbox.miny[1] <= bbox.maxy[1]
            /\ \A p \in Permutations(1..Len(AllDrawings)) :
                   EdgesBBox(parse_edges(Permuted(AllDrawings, p), <<>>).bbox) = bbox

\* C9's case: two outline drawings with different boxes, the second given
\* with a negative size, one on the board and one in a footprint.
C9_Witness ==
    /\ pc = "done"
    /\ ret.kind = "return"
    /\ ret.pcbdata # None
    /\ Len(board) = 1
    /\ Len(AllDrawings) = 2
    /\ OutlinesOf(AllDrawings) = {1, 2}
    /\ AllDrawings[2].bbox.w < 0
    /\ AllDrawings[1].bbox.w > 0
    /\ ret.pcbdata.edges_bbox.minx[1] < AllDrawings[1].bbox.x

----------------------------------------------------------------------------
(* Claims about parse_netlist, under SpecNetlist *)

\* The names of the nets of the board.
BoardNetNames == {net_info.NetsByName[i].utf8 : i \in 1..Len(net_info.NetsByName)}

\* C11: the list parse_netlist returns is strictly increasing in str order,
\* so sorted and without duplicates, and its elements are exactly the names
\* of the nets of the board.
C11_NetlistStrictlySorted ==
    pc = "done" =>
        /\ \A i \in 1..(Len(ret) - 1) : StrLess(ret[i], ret[i + 1])
        /\ {ret[i] : i \in 1..Len(ret)} = BoardNetNames
        /\ Len(ret) = Cardinality(BoardNetNames)

\* C11's case: the dict gives four nets with "GNDA" first and the unnamed
\* net last, and parse_netlist has returned them in order.
C11_Witness ==
    /\ pc = "done"
    /\ Len(net_info.NetsByName) = 4
    /\ net_info.NetsByName[1].utf8 = "GNDA"
    /\ net_info.NetsByName[4].utf8 = ""
    /\ ret[1] = ""
    /\ ret[4] = "GNDA"

----------------------------------------------------------------------------
(* Claims about the extra fields of parse, under SpecParse *)

\* Extra fields are asked for and extra_data_func has parsed the named file.
FieldSourceParsed ==
    /\ Requested
    /\ config.netlist_file # ""
    /\ netlist.isfile
    /\ netlist.data # None

\* The footprints whose reference the field map does not have.
AbsentFootprints ==
    {i \in 1..Len(self_footprints) :
        self_footprints[i].ref \notin DOMAIN netlist.data.map}

\* The entries of the log with this message.
Logged(msg) == {n \in 1..Len(logger) : logger[n].msg = msg}

\* C12: when extra fields are asked for, a field source was parsed and the
\* board has an outline, parse logs a warning for every footprint whose
\* reference the field map lacks (also when the map is empty), logs the
\* summary warning once if there is such a footprint and not at all
\* otherwise, and returns a document with one component per footprint, in
\* the order of the footprints.
C12_StaleFieldWarnings ==
    (pc = "done" /\ FieldSourceParsed /\ OutlinesOf(AllDrawings) # {}) =>
        /\ \A i \in AbsentFootprints :
               \E n \in Logged("Component is missing") :
                   logger[n].ref = self_footprints[i].ref
        /\ Cardinality(Logged("Component is missing")) = Cardinality(AbsentFootprints)
        /\ Cardinality(Logged("Netlist/xml file is likely out of date.")) =
               (IF AbsentFootprints # {} THEN 1 ELSE 0)
        /\ ret.kind = "return"
        /\ ret.pcbdata # None
        /\ Len(ret.components) = Len(self_footprints)
        /\ \A i \in 1..Len(self_footprints) :
               ret.components[i].ref = self_footprints[i].ref

----------------------------------------------------------------------------
(* Claims about the stroke path of parse_text, under SpecText *)

\* The number of segments of the text.
SegmentCount == Len(d.segments) \div 2

\* Start and end of segment k of the flat list, in millimetres.
SegmentStart(k) == <<<<d.segments[2 * k - 1][1], Scale>>, <<d.segments[2 * k - 1][2], Scale>>>>

SegmentEnd(k) == <<<<d.segments[2 * k][1], Scale>>, <<d.segments[2 * k][2], Scale>>>>

RECURSIVE PointPairs(_, _)
\* The pairs of consecutive points of the first n polylines, in order.
PointPairs(lines, n) ==
    IF n = 0 THEN <<>>
    ELSE PointPairs(lines, n - 1)
             \o [j \in 1..(Len(lines[n]) - 1) |-> <<lines[n][j], lines[n][j + 1]>>]

\* The segment with which polyline l begins.
FirstSegmentOf(lines, l) == Len(PointPairs(lines, l - 1)) + 1

\* C13: on the stroke path, for a flat list of the end points of n segments,
\* a polyline begins at segment k exactly when k = 1 or the start of
\* segment k differs from the end of segment k-1; every polyline has at
\* least 2 points; and the consecutive point pairs of the polylines are the
\* segments, in their order.
C13_StrokePolylines ==
    (pc = "done" /\ d.visible /\ d.stroke) =>
        LET lines == ret.svgpath
        IN  /\ {FirstSegmentOf(lines, l) : l \in 1..Len(lines)} =
                   {k \in 1..SegmentCount :
                       k = 1 \/ d.segments[2 * k - 1] # d.segments[2 * k - 2]}
            /\ \A l \in 1..Len(lines) : Len(lines[l]) >= 2
            /\ PointPairs(lines, Len(lines)) =
                   [k \in 1..SegmentCount |-> <<SegmentStart(k), SegmentEnd(k)>>]

\* C13's case: two segments, the second going on from the end of the first
\* to a third point, drawn as one polyline of three points.
C13_Witness ==
    /\ pc = "done"
    /\ d.visible
    /\ d.stroke
    /\ SegmentCount = 2
    /\ d.segments[2] = d.segments[3]
    /\ d.segments[1] # d.segments[2]
    /\ d.segments[4] # d.segments[1]
    /\ Len(ret.svgpath) = 1
    /\ Len(ret.svgpath[1]) = 3

----------------------------------------------------------------------------
(* Claims about net names in the document, under SpecBoard *)

\* Whether parse returned a document.
ReturnedDocument == pc = "done" /\ ret.kind = "return" /\ ret.pcbdata # None

\* Whether a record of the document has a 'net' field.
HasNet(record) == "net" \in DOMAIN record

\* Whether some record of the two lists of a {'F': ..., 'B': ...} has a net.
SomeNetIn(layers) ==
    \/ \E i \in 1..Len(layers.F) : HasNet(layers.F[i])
    \/ \E i \in 1..Len(layers.B) : HasNet(layers.B[i])

\* Whether some pad of the document has a net.
SomePadNet ==
    \E i \in 1..Len(ret.pcbdata.footprints) :
        \E j \in 1..Len(ret.pcbdata.footprints[i].pads) :
            HasNet(ret.pcbdata.footprints[i].pads[j])

\* C14: when config.include_nets is off, no record of the document parse
\* returns carries a net name: no pad, no straight or arc track, no via and
\* no zone has a 'net' field, and the document has no 'nets' list.
C14_NoNetNamesWithoutInclusion ==
    (ReturnedDocument /\ ~config.include_nets) =>
        /\ ~SomePadNet
        /\ "tracks" \in DOMAIN ret.pcbdata => ~SomeNetIn(ret.pcbdata.tracks)
        /\ "zones" \in DOMAIN ret.pcbdata => ~SomeNetIn(ret.pcbdata.zones)
        /\ "nets" \notin DOMAIN ret.pcbdata
====
